---- MODULE Spec2Model ----
(***************************************************************************)
(* Model of tailscale-pihole-sync.py: one run of sync_tailscale_to_pihole  *)
(* against a Pi-hole DNS store and a Tailscale status source.              *)
(*                                                                         *)
(* Python strings are sequences of one-character strings, so that          *)
(* str.split, the f-string "{ip} {domain}" and ipaddress.ip_address are    *)
(* computed on characters. Python dicts are functions; a key that is       *)
(* absent from a dict is absent from the function's DOMAIN.                *)
(***************************************************************************)
EXTENDS Integers, Sequences, FiniteSets, TLC

\* ------------------------------------------------------------------ bounds
\* Longest TailscaleIPs list a peer of the status document publishes.
MaxIPs == 2

\* ------------------------------------------------------- string primitives
Digits == {"0", "1", "2", "3", "4", "5", "6", "7", "8", "9"}

HexDigits == Digits \cup {"a", "b", "c", "d", "e", "f", "A", "B", "C", "D", "E", "F"}

DigitVal(c) == CASE c = "0" -> 0 [] c = "1" -> 1 [] c = "2" -> 2 [] c = "3" -> 3
                 [] c = "4" -> 4 [] c = "5" -> 5 [] c = "6" -> 6 [] c = "7" -> 7
                 [] c = "8" -> 8 [] c = "9" -> 9

\* the elements of a list, as a set
Range(s) == {s[i] : i \in 1..Len(s)}

\* The one element of a singleton set. An operator whose argument is a long
\* computation binds it by a set constructor, {F(x) : x \in {e}}, so that e
\* is evaluated once before F uses it; Only takes the result out again.
Only(S) == CHOOSE x \in S : TRUE

\* sep in s
Contains(s, sep) == \E i \in 1..Len(s) : s[i] = sep

\* s.find(sep), 1-based; 0 when sep does not occur
Find(s, sep) == IF Contains(s, sep)
                THEN CHOOSE i \in 1..Len(s) : s[i] = sep /\ \A j \in 1..(i - 1) : s[j] # sep
                ELSE 0

\* s.split(sep) for a one-character separator: always at least one part.
\* Part k lies between the (k-1)-th and the k-th occurrence of sep.
Split(s, sep) ==
    LET cuts == {i \in 1..Len(s) : s[i] = sep}
        cut(k) == IF k = 0 THEN 0
                  ELSE IF k = Cardinality(cuts) + 1 THEN Len(s) + 1
                  ELSE CHOOSE i \in cuts : Cardinality({j \in cuts : j < i}) = k - 1
    IN [k \in 1..(Cardinality(cuts) + 1) |-> SubSeq(s, cut(k - 1) + 1, cut(k) - 1)]

\* s.split(sep, 1): at most one cut, at the first separator
SplitOnce(s, sep) == LET i == Find(s, sep)
                     IN IF i = 0 THEN <<s>>
                        ELSE <<SubSeq(s, 1, i - 1), SubSeq(s, i + 1, Len(s))>>

RECURSIVE DecValue(_)
\* int(s) of a string of decimal digits
DecValue(s) == IF s = <<>> THEN 0
               ELSE 10 * DecValue(SubSeq(s, 1, Len(s) - 1)) + DigitVal(s[Len(s)])

\* ------------------------------------------------- ipaddress.ip_address(ip)
\* IPv4Address._parse_octet: 1..3 decimal digits, no leading zero, <= 255
IsOctet(s) == /\ Len(s) \in 1..3
              /\ \A i \in 1..Len(s) : s[i] \in Digits
              /\ (Len(s) > 1 => s[1] # "0")
              /\ DecValue(s) <= 255

\* IPv4Address(ip) does not raise: exactly four octets separated by "."
IsIPv4(s) == \E octets \in {Split(s, ".")} :
                /\ Len(octets) = 4
                /\ \A o \in Range(octets) : IsOctet(o)

\* IPv6Address._parse_hextet: 1..4 hexadecimal digits
IsHextet(s) == /\ Len(s) \in 1..4
               /\ \A i \in 1..Len(s) : s[i] \in HexDigits

\* IPv6Address(ip) does not raise (_ip_int_from_string, without the embedded
\* IPv4 tail and the %scope suffix, which no address of the model uses)
IsIPv6(s) ==
    \E parts \in {Split(s, ":")} :
    LET n == Len(parts)
        skips == {i \in 2..(n - 1) : parts[i] = <<>>}
    IN /\ n >= 3
       /\ n <= 9
       /\ Cardinality(skips) <= 1
       /\ IF skips # {}
          THEN LET k == CHOOSE i \in skips : TRUE
                   hi0 == k - 1
                   lo0 == n - k
                   hi == IF parts[1] = <<>> THEN hi0 - 1 ELSE hi0
                   lo == IF parts[n] = <<>> THEN lo0 - 1 ELSE lo0
               IN /\ (parts[1] = <<>> => hi = 0)
                  /\ (parts[n] = <<>> => lo = 0)
                  /\ 8 - (hi + lo) >= 1
                  /\ \A i \in 1..hi : IsHextet(parts[i])
                  /\ \A i \in (n - lo + 1)..n : IsHextet(parts[i])
          ELSE /\ n = 8
               /\ \A i \in 1..n : IsHextet(parts[i])

\* ipaddress.ip_address(ip) returns an address object instead of raising ValueError
ip_address_ok(ip) == IsIPv4(ip) \/ IsIPv6(ip)

\* --------------------------------------------------------- Python dicts
\* d.get(k, default) of a dict modelled as a function
Get(d, k, default) == IF k \in DOMAIN d THEN d[k] ELSE default

\* An insertion-ordered dict is a sequence of <<key, value>> pairs with distinct
\* keys. d[k] = v: replaces the value in place, or appends a new pair.
DictSet(d, k, v) == IF \E i \in 1..Len(d) : d[i][1] = k
                    THEN [i \in 1..Len(d) |-> IF d[i][1] = k THEN <<k, v>> ELSE d[i]]
                    ELSE Append(d, <<k, v>>)

\* list(d.keys())
DictKeys(d) == [i \in 1..Len(d) |-> d[i][1]]

\* ------------------------------------------------------------- the inputs
\* HOSTNAME_SUFFIX values: the default ".ts", and "" (HOSTNAME_SUFFIX= in .env)
SuffixTs == <<".", "t", "s">>

Suffixes == {SuffixTs, <<>>}

\* PIHOLE_PASSWORD values: the default "" (not configured), and a password
Passwords == {<<>>, <<"p", "w">>}

NameH1 == <<"h", "1", ".", "t", "n">>

AddrV4 == <<"1", "0", ".", "0", ".", "0", ".", "1">>

AddrV6 == <<"f", "d", ":", ":", "1">>

AddrBad == <<"n", "o">>

\* all lists of length <= n over the addresses in addrs
Lists(addrs, n) == UNION {[1..k -> addrs] : k \in 0..n}

\* a dict that holds key k with one of the values vals, or (when opt) lacks it
Field(k, vals, opt) == {k :> v : v \in vals} \cup (IF opt THEN {<<>>} ELSE {})

\* peer documents of `tailscale status --json`: Online, DNSName, TailscaleIPs, IP
PeerDocs(onlines, names, iplists, ips) ==
    {o @@ n @@ l @@ f : o \in onlines, n \in names, l \in iplists, f \in ips}

\* the ids a Peer map is keyed by, and the ids Self may carry: one of them is
\* in both, so that Self can meet a Peer entry under its own id
PeerIds == {"1"}

SelfIds == {"1", "2"}

\* the Peer maps over `docs`: insertion-ordered dicts id -> peer document
PeerMaps(docs) ==
    UNION {{m \in [1..k -> PeerIds \X docs] :
               \A i, j \in 1..k : m[i][1] = m[j][1] => i = j} :
           k \in 0..Cardinality(PeerIds)}

\* status documents over the peer documents `docs`: an optional Peer map, and
\* an optional Self whose ID is one of SelfIds or missing
StatusDocs(docs) ==
    LET peers == {<<>>} \cup {"Peer" :> m : m \in PeerMaps(docs)}
        selves == {<<>>} \cup {"Self" :> (i @@ d) : i \in Field("ID", SelfIds, TRUE), d \in docs}
    IN {p @@ s : p \in peers, s \in selves}

\* the peers that exercise every branch of the per-peer loop
RichPeers == PeerDocs(Field("Online", BOOLEAN, TRUE),
                      Field("DNSName", {<<>>, NameH1}, TRUE),
                      Field("TailscaleIPs", Lists({AddrV4, AddrBad}, MaxIPs), FALSE),
                      Field("IP", {AddrV6, AddrBad}, TRUE))

\* the peers of a whole run: offline or online, with both address families
RunPeers == PeerDocs(Field("Online", {TRUE}, TRUE),
                     Field("DNSName", {NameH1}, FALSE),
                     Field("TailscaleIPs", {<<AddrV4, AddrV6>>, <<AddrBad>>}, FALSE),
                     {<<>>})

\* entries a Pi-hole may hold in dns.hosts before the run; the last has no " "
HostPool == {AddrV4 \o <<" ">> \o <<"h", "1">> \o SuffixTs,
             AddrV6 \o <<" ">> \o <<"h", "1">> \o SuffixTs,
             <<"j", "u", "n", "k">>}

\* initial dns.hosts lists of the store: at most MaxHosts entries of the pool
MaxHosts == 2

HostLists == Lists(HostPool, MaxHosts)

\* ------------------------------------------------------------------ state
VARIABLES
    pc,                 \* position of the run inside sync_tailscale_to_pihole
    PIHOLE_PASSWORD,    \* PIHOLE_CONFIG["password"]
    HOSTNAME_SUFFIX,    \* the configured hostname suffix
    hosts,              \* the store's dns.hosts list
    hosts0,             \* dns.hosts as it was when the run started
    sid,                \* the session id held by the run, "None" without one
    tailscale_status,   \* the parsed status document
    existing_entries,   \* dict domain -> ip returned by get_custom_dns_entries
    desired_entries,    \* insertion-ordered dict "<ip> <domain>" -> True
    success,            \* what update_custom_dns_entries returned
    exc,                \* the exception in flight, "none" without one
    log,                \* the logger.error records emitted (level=ERROR)
    logouts,            \* DELETE /auth requests sent (logout_pihole calls)
    updates,            \* PATCH /config requests sent (update_custom_dns_entries calls)
    payload             \* config.dns.hosts of the last PATCH /config request

vars == <<pc, PIHOLE_PASSWORD, HOSTNAME_SUFFIX, hosts, hosts0, sid, tailscale_status,
          existing_entries, desired_entries, success, exc, log, logouts, updates,
          payload>>

\* what the run does not touch while it works on its locals
config == <<PIHOLE_PASSWORD, HOSTNAME_SUFFIX, hosts0>>

\* ------------------------------------------------------- extract_hostname
extract_hostname(dns_name) == Split(dns_name, ".")[1] \o HOSTNAME_SUFFIX

\* ------------------------------------------------- get_custom_dns_entries
RECURSIVE ParseHosts(_, _)
\* the loop over data["config"]["dns"]["hosts"]: entries[domain] = ip
ParseHosts(entries, list) ==
    IF list = <<>> THEN entries
    ELSE LET entry == Head(list)
             kv == SplitOnce(entry, " ")
         IN ParseHosts(IF Contains(entry, " ")
                       THEN (kv[2] :> kv[1]) @@ entries
                       ELSE entries,
                       Tail(list))

\* ----------------------------------------------- the per-peer loop body
\* faulty variant of IsOnline: a peer without an Online flag counts as online
IsOnline_DefaultTrue(peer) == Get(peer, "Online", TRUE)

\* peer.get("Online", False)
IsOnline(peer) == Get(peer, "Online", FALSE)

\* faulty variant of PeerIPs: the single reported address is preferred
PeerIPs_FallbackFirst(peer) ==
    IF Get(peer, "IP", <<>>) # <<>> THEN <<peer.IP>>
    ELSE Get(peer, "TailscaleIPs", <<>>)

\* the address list chosen for a peer: TailscaleIPs when non-empty, else [IP]
PeerIPs(peer) ==
    IF Get(peer, "TailscaleIPs", <<>>) # <<>> THEN peer.TailscaleIPs
    ELSE IF Get(peer, "IP", <<>>) # <<>> THEN <<peer.IP>>
    ELSE <<>>

RECURSIVE AddIPs_Break(_, _, _)
\* faulty variant of AddIPs: `break` instead of `continue` on an invalid address
AddIPs_Break(desired, ips, domain) ==
    IF ips = <<>> THEN desired
    ELSE LET ip == Head(ips)
         IN IF ip_address_ok(ip)
            THEN AddIPs_Break(DictSet(desired, ip \o <<" ">> \o domain, TRUE),
                              Tail(ips), domain)
            ELSE desired

RECURSIVE AddIPs(_, _, _)
\* for ip in ips: desired_entries[f"{ip} {domain}"] = True unless ip_address raises
AddIPs(desired, ips, domain) ==
    IF ips = <<>> THEN desired
    ELSE Only({AddIPs(next, Tail(ips), domain) :
                 next \in {IF ip_address_ok(Head(ips))
                           THEN DictSet(desired, Head(ips) \o <<" ">> \o domain, TRUE)
                           ELSE desired}})

\* one iteration of `for peer_id, peer in peers.items()`
ProcessPeer(desired, peer) ==
    IF ~IsOnline(peer) THEN desired
    ELSE Only({IF ips = <<>> THEN desired
               ELSE IF domain = <<>> THEN desired
               ELSE AddIPs(desired, ips, domain) :
                  ips \in {PeerIPs(peer)},
                  domain \in {extract_hostname(Get(peer, "DNSName", <<>>))}})

RECURSIVE ProcessPeers(_, _)
ProcessPeers(desired, peers) ==
    IF peers = <<>> THEN desired
    ELSE Only({ProcessPeers(next, Tail(peers)) :
                 next \in {ProcessPeer(desired, Head(peers)[2])}})

\* faulty variant of MergeSelf: Self is appended even when its id is already there
MergeSelf_Append(status) ==
    LET peers == Get(status, "Peer", <<>>)
    IN IF "Self" \in DOMAIN status
       THEN Append(peers, <<status.Self.ID, status.Self>>)
       ELSE peers

\* peers = status.get("Peer", {}).copy(); peers[Self["ID"]] = Self when Self is there
MergeSelf(status) ==
    LET peers == Get(status, "Peer", <<>>)
    IN IF "Self" \in DOMAIN status
       THEN DictSet(peers, status.Self.ID, status.Self)
       ELSE peers

\* tailscale_status["Self"]["ID"] raises KeyError
SelfLacksID(status) == "Self" \in DOMAIN status /\ "ID" \notin DOMAIN status.Self

\* ----------------------------------------------------- control structure
\* faulty variant of Unwind: no finally block, the exception goes to the handler
Unwind_NoFinally == "except"

\* where an exception raised inside the inner try block goes first
Unwind == "finally"

\* faulty variant of Catches: only the peer-source errors are handled
Catches_SourceOnly(e) == e \in {"CalledProcessError", "JSONDecodeError"}

\* `except Exception` matches every exception class the run can raise
Catches(e) == e \in {"CalledProcessError", "JSONDecodeError", "KeyError"}

\* faulty variant of NoSession: the result of authenticate_pihole is not checked
NoSession_Unchecked(s) == FALSE

\* `if not sid`
NoSession(s) == s = "None"

\* ------------------------------------------------------------------- Init
\* a run about to start: configuration read from the environment, the store
\* holding some dns.hosts list, no local bound yet
Init ==
    /\ pc = "start"
    /\ PIHOLE_PASSWORD \in Passwords
    /\ HOSTNAME_SUFFIX \in Suffixes
    /\ hosts \in HostLists
    /\ hosts0 = hosts
    /\ sid = "None"
    /\ tailscale_status = <<>>
    /\ existing_entries = <<>>
    /\ desired_entries = <<>>
    /\ success = FALSE
    /\ exc = "none"
    /\ log = {}
    /\ logouts = 0
    /\ updates = 0
    /\ payload = <<>>

\* ---------------------------------------------------------------- actions
\* `if not PIHOLE_CONFIG["password"]`: log and return
CheckPassword ==
    /\ pc = "start"
    /\ IF PIHOLE_PASSWORD = <<>>
       THEN /\ log' = log \cup {"password not configured"}
            /\ pc' = "done"
       ELSE /\ log' = log
            /\ pc' = "auth"
    /\ UNCHANGED <<config, hosts, sid, tailscale_status, existing_entries,
                   desired_entries, success, exc, logouts, updates, payload>>

\* the `if not sid` that follows authenticate_pihole()
AfterAuth(s, records) ==
    /\ sid' = s
    /\ IF NoSession(s)
       THEN /\ log' = log \cup records \cup {"failed to authenticate"}
            /\ pc' = "done"
       ELSE /\ log' = log \cup records
            /\ pc' = "status"
    /\ UNCHANGED <<config, hosts, tailscale_status, existing_entries,
                   desired_entries, success, exc, logouts, updates, payload>>

\* authenticate_pihole(): the store answers with a session id
AuthenticateOk == pc = "auth" /\ AfterAuth("sid1", {})

\* authenticate_pihole(): the answer holds no session.sid
AuthenticateInvalid == pc = "auth" /\ AfterAuth("None", {"invalid authentication response"})

\* authenticate_pihole(): requests raises RequestException (rejected, unreachable)
AuthenticateError == pc = "auth" /\ AfterAuth("None", {"error authenticating"})

\* get_tailscale_status() returns the parsed document
GetStatusOk ==
    /\ pc = "status"
    /\ \E st \in StatusDocs(RunPeers) : tailscale_status' = st
    /\ pc' = "read"
    /\ UNCHANGED <<config, hosts, sid, existing_entries, desired_entries, success,
                   exc, log, logouts, updates, payload>>

\* get_tailscale_status() logs and re-raises CalledProcessError
GetStatusCommandError ==
    /\ pc = "status"
    /\ exc' = "CalledProcessError"
    /\ log' = log \cup {"error running tailscale command"}
    /\ pc' = Unwind
    /\ UNCHANGED <<config, hosts, sid, tailscale_status, existing_entries,
                   desired_entries, success, logouts, updates, payload>>

\* get_tailscale_status() logs and re-raises JSONDecodeError
GetStatusParseError ==
    /\ pc = "status"
    /\ exc' = "JSONDecodeError"
    /\ log' = log \cup {"error parsing tailscale output"}
    /\ pc' = Unwind
    /\ UNCHANGED <<config, hosts, sid, tailscale_status, existing_entries,
                   desired_entries, success, logouts, updates, payload>>

\* get_custom_dns_entries(sid) parses the store's dns.hosts
ReadHostsOk ==
    /\ pc = "read"
    /\ existing_entries' = ParseHosts(<<>>, hosts)
    /\ pc' = "build"
    /\ UNCHANGED <<config, hosts, sid, tailscale_status, desired_entries, success,
                   exc, log, logouts, updates, payload>>

\* get_custom_dns_entries(sid): RequestException, logged, {} returned
ReadHostsRequestError ==
    /\ pc = "read"
    /\ existing_entries' = <<>>
    /\ log' = log \cup {"error getting custom DNS entries"}
    /\ pc' = "build"
    /\ UNCHANGED <<config, hosts, sid, tailscale_status, desired_entries, success,
                   exc, logouts, updates, payload>>

\* get_custom_dns_entries(sid): KeyError or ValueError, logged, {} returned
ReadHostsParseError ==
    /\ pc = "read"
    /\ existing_entries' = <<>>
    /\ log' = log \cup {"error parsing custom DNS entries"}
    /\ pc' = "build"
    /\ UNCHANGED <<config, hosts, sid, tailscale_status, desired_entries, success,
                   exc, logouts, updates, payload>>

\* desired_entries = {}, the Self merge and the loop over peers.items()
Build ==
    /\ pc = "build"
    /\ IF SelfLacksID(tailscale_status)
       THEN /\ desired_entries' = <<>>
            /\ exc' = "KeyError"
            /\ pc' = Unwind
       ELSE /\ desired_entries' = ProcessPeers(<<>>, MergeSelf(tailscale_status))
            /\ exc' = exc
            /\ pc' = "update"
    /\ UNCHANGED <<config, hosts, sid, tailscale_status, existing_entries, success,
                   log, logouts, updates, payload>>

RECURSIVE SetToSeq(_)
SetToSeq(S) == IF S = {} THEN <<>>
               ELSE LET x == CHOOSE y \in S : TRUE IN <<x>> \o SetToSeq(S \ {x})

\* faulty variant of dns_entries: the entries read from the store are kept
dns_entries_KeepExisting ==
    DictKeys(desired_entries)
        \o SetToSeq({existing_entries[d] \o <<" ">> \o d : d \in DOMAIN existing_entries}
                     \ Range(DictKeys(desired_entries)))

\* dns_entries = list(desired_entries.keys())
dns_entries == DictKeys(desired_entries)

\* the log record that follows update_custom_dns_entries(): `if success ... else`
AfterUpdate(ok, records) ==
    /\ success' = ok
    /\ log' = log \cup records \cup (IF ok THEN {} ELSE {"failed to sync"})
    /\ updates' = updates + 1
    /\ payload' = dns_entries
    /\ pc' = "finally"
    /\ UNCHANGED <<config, sid, tailscale_status, existing_entries, desired_entries,
                   exc, logouts>>

\* PATCH /config accepted, the echoed dns.hosts has as many entries as were sent
UpdateOk ==
    /\ pc = "update"
    /\ hosts' = dns_entries
    /\ AfterUpdate(TRUE, {})

\* PATCH /config accepted, the echoed count differs: a warning, still True.
\* The warning is below the logger's level (ERROR), so nothing is recorded.
UpdateCountMismatch ==
    /\ pc = "update"
    /\ hosts' = dns_entries
    /\ AfterUpdate(TRUE, {})

\* PATCH /config accepted, the answer holds no config.dns.hosts: False
UpdateNoHosts ==
    /\ pc = "update"
    /\ hosts' = dns_entries
    /\ AfterUpdate(FALSE, {"DNS hosts not found in API response"})

\* PATCH /config raises RequestException: the table stays, False
UpdateError ==
    /\ pc = "update"
    /\ hosts' = hosts
    /\ AfterUpdate(FALSE, {"error updating custom DNS entries"})

\* the finally block: logout_pihole(sid), whose result is dropped
AfterLogout(records) ==
    /\ logouts' = logouts + 1
    /\ log' = log \cup records
    /\ pc' = IF exc = "none" THEN "done" ELSE "except"
    /\ UNCHANGED <<config, hosts, sid, tailscale_status, existing_entries,
                   desired_entries, success, exc, updates, payload>>

\* logout_pihole(sid): DELETE /auth succeeds
LogoutOk == pc = "finally" /\ AfterLogout({})

\* logout_pihole(sid): RequestException, logged, False returned
LogoutError == pc = "finally" /\ AfterLogout({"error logging out"})

\* `except Exception as e`: log the error; the function returns None
Except ==
    /\ pc = "except"
    /\ IF Catches(exc)
       THEN /\ log' = log \cup {"error during synchronization"}
            /\ exc' = "none"
            /\ pc' = "done"
       ELSE /\ log' = log
            /\ exc' = exc
            /\ pc' = "raised"
    /\ UNCHANGED <<config, hosts, sid, tailscale_status, existing_entries,
                   desired_entries, success, logouts, updates, payload>>

Next ==
    \/ CheckPassword
    \/ AuthenticateOk
    \/ AuthenticateInvalid
    \/ AuthenticateError
    \/ GetStatusOk
    \/ GetStatusCommandError
    \/ GetStatusParseError
    \/ ReadHostsOk
    \/ ReadHostsRequestError
    \/ ReadHostsParseError
    \/ Build
    \/ UpdateOk
    \/ UpdateCountMismatch
    \/ UpdateNoHosts
    \/ UpdateError
    \/ LogoutOk
    \/ LogoutError
    \/ Except

Spec == Init /\ [][Next]_vars

\* The run is one sequential thread: a step that can be taken is taken, every
\* blocking call (subprocess, HTTP request) returning or raising in the end.
FairSpec == Spec /\ WF_vars(Next)

\* ------------------------------------------- the desired set on rich peers
\* the run at `desired_entries = {}` (line 220): authenticated, the status
\* document drawn from the rich peers, the store read done
InitBuild ==
    /\ pc = "build"
    /\ PIHOLE_PASSWORD = <<"p", "w">>
    /\ HOSTNAME_SUFFIX \in Suffixes
    /\ hosts = <<>>
    /\ hosts0 = hosts
    /\ sid = "sid1"
    /\ tailscale_status \in StatusDocs(RichPeers)
    /\ existing_entries = <<>>
    /\ desired_entries = <<>>
    /\ success = FALSE
    /\ exc = "none"
    /\ log = {}
    /\ logouts = 0
    /\ updates = 0
    /\ payload = <<>>

NextBuild == Build \/ UpdateOk

SpecBuild == InitBuild /\ [][NextBuild]_vars

\* ============================================================ properties
\* ---------------------------------------------- what the properties refer to
\* the run has left the function (returned, or let an exception out)
Ended == pc \in {"done", "raised"}

\* the loop over the peers ran to its end
Built == pc = "update" \/ updates = 1

\* get_custom_dns_entries logged a failure and returned {}
ReadFailed == log \cap {"error getting custom DNS entries",
                        "error parsing custom DNS entries"} # {}

\* get_tailscale_status raised (command error or malformed output)
SourceFailed == log \cap {"error running tailscale command",
                          "error parsing tailscale output"} # {}

\* the records of the desired set, and the records of the store's table
DesiredKeys == Range(DictKeys(desired_entries))

NoDuplicates(list) == \A i, j \in 1..Len(list) : list[i] = list[j] => i = j

\* the entries of the Peer map of a status document
PeerItems(st) == Range(Get(st, "Peer", <<>>))

\* every peer document of a status document, overridden or not
AllPeers(st) == {e[2] : e \in PeerItems(st)}
                    \cup (IF "Self" \in DOMAIN st THEN {st.Self} ELSE {})

\* the peers a run processes: Self, and the Peer entries under another id
EffectivePeers(st) ==
    IF "Self" \in DOMAIN st
    THEN {st.Self} \cup {e[2] : e \in {x \in PeerItems(st) : x[1] # st.Self.ID}}
    ELSE AllPeers(st)

MarkedOnline(p) == "Online" \in DOMAIN p /\ p.Online = TRUE

DNSNameOf(p) == IF "DNSName" \in DOMAIN p THEN p.DNSName ELSE <<>>

\* the first label of a DNS name: what precedes its first "."
FirstLabel(name) ==
    IF \E i \in 1..Len(name) : name[i] = "."
    THEN SubSeq(name, 1, (CHOOSE i \in 1..Len(name) :
                             name[i] = "." /\ \A j \in 1..(i - 1) : name[j] # ".") - 1)
    ELSE name

\* the Host Record "<address> <first label + suffix>" of a peer
Rec(ip, p) == ip \o <<" ">> \o FirstLabel(DNSNameOf(p)) \o HOSTNAME_SUFFIX

MeshIPs(p) == IF "TailscaleIPs" \in DOMAIN p THEN Range(p.TailscaleIPs) ELSE {}

FallbackIP(p) == IF "IP" \in DOMAIN p /\ p.IP # <<>> THEN {p.IP} ELSE {}

\* the addresses published for a peer: the mesh addresses, else the fallback
Published(p) == IF MeshIPs(p) # {} THEN MeshIPs(p) ELSE FallbackIP(p)

\* the records a peer is entitled to under the rules of the loop
Records(p) ==
    IF MarkedOnline(p) /\ FirstLabel(DNSNameOf(p)) \o HOSTNAME_SUFFIX # <<>>
    THEN {Rec(ip, p) : ip \in {a \in Published(p) : ip_address_ok(a)}}
    ELSE {}

\* the desired set as a function of the status document alone
DesiredOf(st) == UNION {Records(p) : p \in EffectivePeers(st)}

\* --------------------------------------------------------------------- C1
\* C1: the session is released exactly once in a run whose authentication
\* returned a session id, whatever the later steps do, and never in a run
\* that has no session id (credential missing, authentication failed).
C1_ReleasedExactlyOnce ==
    /\ logouts <= 1
    /\ (sid = "None" => logouts = 0)
    /\ (Ended => logouts = (IF sid = "None" THEN 0 ELSE 1))

\* a run that ended after an exception while building, with a failed release
C1_Witness ==
    /\ pc = "done"
    /\ sid # "None"
    /\ SelfLacksID(tailscale_status)
    /\ "error logging out" \in log
    /\ logouts = 1

\* --------------------------------------------------------------------- C2
\* C2: a write is attempted only with the credential configured, a session
\* and a well-formed status; at most one write per run; without a write the
\* store's table is what it was when the run started.
C2_WriteOnlyAfterSetup ==
    /\ updates <= 1
    /\ (updates = 1 => /\ PIHOLE_PASSWORD # <<>>
                       /\ sid # "None"
                       /\ ~SourceFailed
                       /\ ~SelfLacksID(tailscale_status))
    /\ (updates = 0 => hosts = hosts0)
    /\ (Ended /\ (PIHOLE_PASSWORD = <<>> \/ sid = "None" \/ SourceFailed)
            => updates = 0 /\ hosts = hosts0)

\* a run that ended on a peer-source failure and left a non-empty table alone
C2_Witness ==
    /\ pc = "done"
    /\ SourceFailed
    /\ updates = 0
    /\ hosts0 # <<>>
    /\ hosts = hosts0

\* --------------------------------------------------------------------- C3
\* C3: an online peer whose DNS name is empty or absent contributes no record:
\* every record of the desired set comes from an online peer that has a
\* non-empty DNS name.
C3_EmptyNameSkipped ==
    Built => \A e \in DesiredKeys :
                \E p \in EffectivePeers(tailscale_status) :
                    /\ MarkedOnline(p)
                    /\ DNSNameOf(p) # <<>>
                    /\ \E ip \in Published(p) : e = Rec(ip, p)

\* --------------------------------------------------------------------- C4
\* C4: for every online peer with a non-empty DNS name, a record
\* "<address> <first label + suffix>" is in the desired set for each valid
\* address of its published list and for no invalid one; the desired list
\* holds each record once, and nothing but such records of online peers.
C4_OneRecordPerValidAddress ==
    Built =>
        /\ \A p \in EffectivePeers(tailscale_status) :
              MarkedOnline(p) /\ DNSNameOf(p) # <<>> =>
                  \A ip \in Published(p) : ip_address_ok(ip) <=> Rec(ip, p) \in DesiredKeys
        /\ NoDuplicates(DictKeys(desired_entries))
        /\ \A e \in DesiredKeys :
              \E p \in EffectivePeers(tailscale_status) :
                  /\ MarkedOnline(p)
                  /\ \E ip \in Published(p) : ip_address_ok(ip) /\ e = Rec(ip, p)

\* a peer publishing ["no", "10.0.0.1"] got its 10.0.0.1 record, and only that
C4_Witness ==
    /\ Built
    /\ HOSTNAME_SUFFIX = SuffixTs
    /\ \E p \in EffectivePeers(tailscale_status) :
          /\ MarkedOnline(p)
          /\ DNSNameOf(p) = NameH1
          /\ "TailscaleIPs" \in DOMAIN p
          /\ p.TailscaleIPs = <<AddrBad, AddrV4>>
          /\ DesiredKeys = {AddrV4 \o <<" ", "h", "1", ".", "t", "s">>}

\* --------------------------------------------------------------------- C5
\* C5: the records written are the desired set of the status document alone,
\* whatever was read from the store; a failed store read does not stop the
\* write; after a successful write the store's table is the desired set, so
\* every earlier record outside it is gone.
C5_WriteIsDesiredSet ==
    /\ (updates = 1 => Range(payload) = DesiredOf(tailscale_status))
    /\ (ReadFailed /\ Ended /\ ~SelfLacksID(tailscale_status)
            => updates = 1 /\ Range(payload) = DesiredOf(tailscale_status))
    /\ (success => /\ Range(hosts) = DesiredOf(tailscale_status)
                   /\ \A e \in Range(hosts0) \ DesiredOf(tailscale_status) :
                          e \notin Range(hosts))

\* a run whose store read failed and whose write replaced a stale record
C5_Witness ==
    /\ pc = "done"
    /\ ReadFailed
    /\ success
    /\ payload # <<>>
    /\ Range(hosts0) \ DesiredOf(tailscale_status) # {}
    /\ Range(hosts0) \cap DesiredOf(tailscale_status) # {}
    /\ hosts = payload

\* --------------------------------------------------------------------- C6
\* C6: the existing table returned by a successful store read holds the pair
\* (domain, address) of every well-formed "<ip> <domain>" entry of dns.hosts,
\* so its size is the number of distinct well-formed entries.
C6_ExistingTableHoldsEveryPair ==
    pc = "build" /\ ~ReadFailed =>
        LET wellFormed == {e \in Range(hosts) : \E i \in 1..Len(e) : e[i] = " "}
            pairs == {<<d, existing_entries[d]>> : d \in DOMAIN existing_entries}
        IN /\ \A e \in wellFormed :
                 \E pr \in pairs : e = pr[2] \o <<" ">> \o pr[1]
           /\ Cardinality(pairs) = Cardinality(wellFormed)

\* --------------------------------------------------------------------- C7
\* C7: Self is processed under the rules of any peer, in the Peer map or not,
\* and once: with a Peer entry under Self's id, the desired set is the
\* records of Self and of the Peer entries under other ids, each held once.
C7_SelfProcessedOnce ==
    Built /\ "Self" \in DOMAIN tailscale_status =>
        /\ DesiredKeys = Records(tailscale_status.Self)
                \cup UNION {Records(e[2]) : e \in {x \in PeerItems(tailscale_status) :
                                                    x[1] # tailscale_status.Self.ID}}
        /\ NoDuplicates(DictKeys(desired_entries))

\* Self under the id of a Peer entry that would have had records of its own
C7_Witness ==
    /\ Built
    /\ "Self" \in DOMAIN tailscale_status
    /\ \E e \in PeerItems(tailscale_status) :
          /\ e[1] = tailscale_status.Self.ID
          /\ Records(e[2]) # {}
          /\ Records(e[2]) \cap DesiredKeys = {}
    /\ DesiredKeys = Records(tailscale_status.Self)
    /\ DesiredKeys # {}

\* --------------------------------------------------------------------- C8
\* C8: every run ends by returning normally: no exception ever leaves the
\* run, and the run reaches its return with no exception in flight, whatever
\* failed on the way.
C8_RunReturnsNormally ==
    /\ [](pc # "raised")
    /\ <>(pc = "done" /\ exc = "none")

\* a run that returned after malformed peer data and a failed release
C8_Witness ==
    /\ pc = "done"
    /\ exc = "none"
    /\ SelfLacksID(tailscale_status)
    /\ "error during synchronization" \in log
    /\ "error logging out" \in log

\* --------------------------------------------------------------------- C9
\* C9: a peer that is not marked online produces no record: every record of
\* the desired set pairs an address and the name of a peer marked online.
C9_OfflinePeerProducesNothing ==
    Built => \A e \in DesiredKeys :
                \E p \in AllPeers(tailscale_status) :
                    /\ MarkedOnline(p)
                    /\ \E ip \in MeshIPs(p) \cup FallbackIP(p) : e = Rec(ip, p)

\* an offline peer with a name and a valid address beside an online one
C9_Witness ==
    /\ Built
    /\ DesiredKeys # {}
    /\ \E p \in EffectivePeers(tailscale_status) :
          /\ ~MarkedOnline(p)
          /\ DNSNameOf(p) = NameH1
          /\ AddrV4 \in MeshIPs(p)
          /\ Rec(AddrV4, p) \notin DesiredKeys

\* -------------------------------------------------------------------- C10
\* C10: the addresses published for an online peer are its TailscaleIPs when
\* that list is non-empty, else its IP when present: no record uses the IP of
\* a peer that lists a mesh address, a valid IP is used when none is listed,
\* and a peer with neither leaves the run going.
C10_MeshAddressesElseFallback ==
    /\ (Built =>
          /\ \A e \in DesiredKeys :
                \E p \in EffectivePeers(tailscale_status) :
                    \E ip \in Published(p) : e = Rec(ip, p)
          /\ \A p \in EffectivePeers(tailscale_status) :
                MarkedOnline(p) /\ DNSNameOf(p) # <<>> =>
                    /\ \A ip \in MeshIPs(p) : ip_address_ok(ip) => Rec(ip, p) \in DesiredKeys
                    /\ (MeshIPs(p) = {} =>
                          \A ip \in FallbackIP(p) :
                              ip_address_ok(ip) => Rec(ip, p) \in DesiredKeys))
    /\ (pc # "build" /\ ~SelfLacksID(tailscale_status) => Built /\ exc = "none")

\* a peer whose only mesh address is invalid: its valid IP is not used
C10_Witness ==
    /\ Built
    /\ DesiredKeys = {}
    /\ \E p \in EffectivePeers(tailscale_status) :
          /\ MarkedOnline(p)
          /\ DNSNameOf(p) = NameH1
          /\ MeshIPs(p) = {AddrBad}
          /\ FallbackIP(p) = {AddrV6}

====
